---- MODULE Spec2Model ----
(***************************************************************************)
(* Transaction handle (lib/src/txn.rs) over one leased connection, with    *)
(* the row streams opened from it.  Every request/response round trip is   *)
(* two steps (send, receive) because each `.await` on send_recv is a       *)
(* suspension point.  The default build (feature                            *)
(* unstable-bolt-protocol-impl-v2 off) is modelled; the v2 build sends the *)
(* same messages through send_recv_as, and differs in what run_queries     *)
(* returns (feature_v2).                                                   *)
(*                                                                         *)
(* The second part is the decoding of a BoltType into a target type        *)
(* (lib/src/types/serde/typ.rs): BoltType::to is a pure function of the    *)
(* value and the target type, applied once to every input of SpecSerde.    *)
(***************************************************************************)
EXTENDS Integers, Sequences, FiniteSets, TLC

\* ---------------------------------------------------------------- bounds
MaxStreams == 2
MaxRows == 2
MaxFetch == 2
MaxRuns == 1
MaxNone == 2
MaxFail == 1
MaxFaultStreams == 1
MaxOther == 1
MaxBatch == 2
MaxStat == 1
MaxList == 2
MaxTuple == 2
MaxFields == 3

Streams == 1..MaxStreams
FetchSizes == 1..MaxFetch
RowCounts == 0..MaxRows

VARIABLES
    txn,        \* life of the Txn handle
    conn,       \* where the ManagedConnection is
    connBad,    \* a terminal exchange on the connection has failed
    fetch_size, \* Txn.fetch_size
    sent,       \* how many requests of each kind were written to the connection
    late,       \* requests written after a COMMIT / ROLLBACK was written
    inflight,   \* requests written and not yet answered
    cur,        \* the call that currently holds the &mut borrow
    result,     \* what the last completed call returned
    beginResp,  \* response kind received for BEGIN
    termResp,   \* response kind received for COMMIT / ROLLBACK
    runs,       \* number of run() calls made
    nfail,      \* number of faults the server / transport has injected
    qlimit,     \* number of streams the caller opens in this run
    status,     \* per stream: unopened / open / dropped
    qsize,      \* per stream: fetch size handed over by execute
    buf,        \* per stream: buffered rows
    hasMore,    \* per stream: has-more flag of the last PULL
    yielded,    \* per stream: rows returned by next(), in order
    pulls,      \* per stream: PULL requests sent for it
    nones,      \* per stream: times next() returned None
    sfail,      \* per stream: one of its exchanges failed
    discardFailed, \* a DISCARD sent on drop was not answered with SUCCESS
    srvN,       \* server: rows of each query's result
    srvSent,    \* server: rows of each result already sent
    srvOpen,    \* server: result still open (not consumed / discarded)
    db,         \* Txn.db
    operation,  \* Txn.operation
    stamped,    \* extras of the queries run / execute have dispatched
    otherSent,  \* requests another lessee of the pool wrote on the connection
    foreign,    \* those of them written while the handle held the connection
    feature_v2, \* built with feature unstable-bolt-protocol-impl-v2
    queries,    \* run_queries: the batch handed over, in the caller's order
    batch,      \* run_queries: queries of the batch not yet dispatched
    dispatched, \* run_queries: queries it has passed to self.run, in order
    counters,   \* run_queries: the local accumulator
    statsLog,   \* run_queries: the stats of each summary received, in order
    summary,    \* run_queries: what the call returned
    value,      \* the BoltType handed to to::<T>()
    request,    \* the target type T
    decoded     \* what to::<T>() returned

vars == <<txn, conn, connBad, fetch_size, sent, late, inflight, cur, result,
          beginResp, termResp, runs, nfail, qlimit, status, qsize, buf, hasMore,
          yielded, pulls, nones, sfail, discardFailed, srvN, srvSent, srvOpen,
          db, operation, stamped, otherSent, foreign, feature_v2, queries, batch,
          dispatched, counters, statsLog, summary, value, request, decoded>>

txnVars == <<txn, conn, fetch_size, beginResp, termResp, runs, qlimit>>
streamVars == <<status, qsize, buf, hasMore, yielded, pulls, nones, sfail, discardFailed>>
serverVars == <<srvN, srvSent, srvOpen>>
queryVars == <<db, operation>>
leaseVars == <<otherSent, foreign>>
batchVars == <<feature_v2, queries, batch, dispatched, counters, statsLog, summary>>
serdeVars == <<value, request, decoded>>

\* ---------------------------------------------------------------- messages
Msg(op, q, n) == [op |-> op, q |-> q, n |-> n]
Idle == [op |-> "idle", q |-> 0]
Call(op, q) == [op |-> op, q |-> q]

Terminal == {"COMMIT", "ROLLBACK"}

\* response kinds: a SUCCESS message, any other message, a transport error
Kinds == IF nfail < MaxFail THEN {"SUCCESS", "FAILURE", "IOERR"} ELSE {"SUCCESS"}

Min(a, b) == IF a < b THEN a ELSE b

RowsOf(q, from, to) == [i \in 1..(to - from) |-> <<q, from + i>>]

\* what the server answers to request req when it answers with kind k
Answer(req, k) ==
    IF req.op = "PULL" /\ k = "SUCCESS" /\ srvOpen[req.q]
    THEN LET upto == Min(srvSent[req.q] + req.n, srvN[req.q])
         IN [kind |-> k,
             rows |-> RowsOf(req.q, srvSent[req.q], upto),
             more |-> upto < srvN[req.q]]
    ELSE [kind |-> k, rows |-> <<>>, more |-> FALSE]

\* the server's result table after answering req with kind k
ServerStep(req, k, n) ==
    IF k # "SUCCESS" THEN UNCHANGED serverVars
    ELSE IF req.op = "RUN" /\ req.q \in Streams
    THEN /\ srvN' = [srvN EXCEPT ![req.q] = n]
         /\ srvSent' = [srvSent EXCEPT ![req.q] = 0]
         /\ srvOpen' = [srvOpen EXCEPT ![req.q] = TRUE]
    ELSE IF req.op = "PULL" /\ srvOpen[req.q]
    THEN LET upto == Min(srvSent[req.q] + req.n, srvN[req.q])
         IN /\ srvSent' = [srvSent EXCEPT ![req.q] = upto]
            /\ srvOpen' = [srvOpen EXCEPT ![req.q] = upto < srvN[req.q]]
            /\ UNCHANGED srvN
    ELSE IF req.op = "DISCARD"
    THEN /\ srvOpen' = [srvOpen EXCEPT ![req.q] = FALSE]
         /\ UNCHANGED <<srvN, srvSent>>
    ELSE UNCHANGED serverVars

\* ---------------------------------------------------------------- results
Ok(op) == [op |-> op, ok |-> TRUE, err |-> "none", tag |-> ""]
IoErr(op) == [op |-> op, ok |-> FALSE, err |-> "io", tag |-> ""]
into_error(op, tag) == [op |-> op, ok |-> FALSE, err |-> "unexpected", tag |-> tag]
NoResult == [op |-> "none", ok |-> TRUE, err |-> "none", tag |-> ""]

\* Txn::new, the match on the answer to BEGIN
new_result_anyok(k) ==
    IF k = "IOERR" THEN IoErr("new") ELSE Ok("new")
new_result_tag(k) ==
    IF k = "IOERR" THEN IoErr("new")
    ELSE IF k = "SUCCESS" THEN Ok("new") ELSE into_error("new", "COMMIT")
new_result(k) ==
    IF k = "IOERR" THEN IoErr("new")
    ELSE IF k = "SUCCESS" THEN Ok("new") ELSE into_error("new", "BEGIN")

\* Txn::commit, the match on the answer to COMMIT
commit_result(k) ==
    IF k = "IOERR" THEN IoErr("commit")
    ELSE IF k = "SUCCESS" THEN Ok("commit") ELSE into_error("commit", "COMMIT")

\* Txn::rollback, the match on the answer to ROLLBACK
rollback_result(k) ==
    IF k = "IOERR" THEN IoErr("rollback")
    ELSE IF k = "SUCCESS" THEN Ok("rollback") ELSE into_error("rollback", "ROLLBACK")

\* ---------------------------------------------------------------- connection
\* `&mut self` / `&mut ManagedConnection`: a call can start only when no
\* other call holds the exclusive borrow of the handle and its connection
CanBorrow_shared == TRUE
CanBorrow == cur.op = "idle"

\* the handle after commit(self) / rollback(self): moved into the call
AfterTerminal_kept == "begun"
AfterTerminal == "consumed"

\* the fetch size execute hands to the stream
ExecuteFetchSize_other == IF fetch_size < MaxFetch THEN fetch_size + 1 ELSE 1
ExecuteFetchSize == fetch_size

\* the connection notes a failed terminal exchange (COMMIT, ROLLBACK, DISCARD)
Poison(req, k) == connBad \/ (req.op \in Terminal \cup {"DISCARD"} /\ k # "SUCCESS")

\* dropping the ManagedConnection gives the lease back
Release_always(bad) == "pool"
Release(bad) == IF bad THEN "poisoned" ELSE "pool"

Ops == {"BEGIN", "RUN", "PULL", "DISCARD", "COMMIT", "ROLLBACK"}
TerminalSent == sent["COMMIT"] + sent["ROLLBACK"] > 0

\* send_recv, first half: the request is written to the connection
Send(m) ==
    /\ sent' = [sent EXCEPT ![m.op] = @ + 1]
    /\ late' = IF TerminalSent THEN late + 1 ELSE late
    /\ inflight' = Append(inflight, m)

\* send_recv, second half: the answer to the oldest unanswered request is
\* what the reader receives; more lists the requests the call writes next
Recv(k, n, more) ==
    /\ inflight # <<>>
    /\ k \in Kinds
    /\ inflight' = Tail(inflight) \o more
    /\ sent' = IF more = <<>> THEN sent ELSE [sent EXCEPT ![more[1].op] = @ + 1]
    /\ late' = IF more # <<>> /\ TerminalSent THEN late + 1 ELSE late
    /\ nfail' = IF k = "SUCCESS" THEN nfail ELSE nfail + 1
    /\ connBad' = Poison(Head(inflight), k)
    /\ ServerStep(Head(inflight), k, n)

\* ---------------------------------------------------------------- query extras
\* Txn.db is None
NoDb == "none"
Dbs == {"neo4j", "movies"}
Operations == {"Read", "Write"}

\* a query as the caller hands it over: neither extra is set
Absent == "absent"
NoExtras == [db |-> Absent, mode |-> Absent]

\* Query::extra(key, value)
extra(e, key, val) == [e EXCEPT ![key] = val]

\* Txn::run, the extras of the query it dispatches
run_extras ==
    LET query == IF db # NoDb THEN extra(NoExtras, "db", db) ELSE NoExtras
    IN extra(query, "mode", IF operation = "Read" THEN "r" ELSE "w")

\* Txn::execute, the extras of the query it dispatches
execute_extras_nodb ==
    extra(NoExtras, "mode", IF operation = "Read" THEN "r" ELSE "w")
execute_extras ==
    LET query == IF db # NoDb THEN extra(NoExtras, "db", db) ELSE NoExtras
    IN extra(query, "mode", IF operation = "Read" THEN "r" ELSE "w")

\* ---------------------------------------------------------------- counters
Stats == [nodes : 0..MaxStat, props : 0..MaxStat]

\* Counters::default()
Zero == [nodes |-> 0, props |-> 0]

\* counters += summary.stats()
merge_last(c, s) == s
merge(c, s) == [nodes |-> c.nodes + s.nodes, props |-> c.props + s.props]

NoSummary == [state |-> "none", has |-> FALSE, counters |-> Zero]

\* run_queries returns Ok(counters) in the v2 build, Ok(()) in the default build
run_queries_ok(c) ==
    IF feature_v2 THEN [state |-> "ok", has |-> TRUE, counters |-> c]
    ELSE [state |-> "ok", has |-> FALSE, counters |-> Zero]

\* ---------------------------------------------------------------- the pool
\* the pool hands out only a connection it holds: the ManagedConnection is a
\* field of the Txn from Txn::new until the handle is dropped
Leasable_any == TRUE
Leasable == conn = "pool"

\* ---------------------------------------------------------------- to::<T>() not called
Pending == [state |-> "pending", val |-> "none", err |-> [kind |-> "none"]]
NoDecode ==
    /\ value = [kind |-> "Null", val |-> "null"]
    /\ request = [kind |-> "none", arg |-> "none"]
    /\ decoded = Pending

\* ---------------------------------------------------------------- Init
\* the state before Txn::new is called on a freshly leased connection
Start ==
    /\ txn = "none"
    /\ conn = "leased"
    /\ connBad = FALSE
    /\ fetch_size \in FetchSizes
    /\ sent = [o \in Ops |-> 0]
    /\ late = 0
    /\ inflight = <<>>
    /\ cur = Idle
    /\ result = NoResult
    /\ beginResp = "none"
    /\ termResp = "none"
    /\ runs = 0
    /\ status = [q \in Streams |-> "unopened"]
    /\ qsize = [q \in Streams |-> 0]
    /\ buf = [q \in Streams |-> <<>>]
    /\ hasMore = [q \in Streams |-> FALSE]
    /\ yielded = [q \in Streams |-> <<>>]
    /\ pulls = [q \in Streams |-> 0]
    /\ nones = [q \in Streams |-> 0]
    /\ sfail = [q \in Streams |-> FALSE]
    /\ discardFailed = FALSE
    /\ srvN = [q \in Streams |-> 0]
    /\ srvSent = [q \in Streams |-> 0]
    /\ srvOpen = [q \in Streams |-> FALSE]
    /\ stamped = {}
    /\ otherSent = 0
    /\ foreign = 0
    /\ queries = <<>>
    /\ batch = <<>>
    /\ dispatched = <<>>
    /\ counters = Zero
    /\ statsLog = <<>>
    /\ summary = NoSummary

\* runs in which the server or the transport may fail
Init ==
    /\ Start
    /\ nfail = 0
    /\ qlimit = Min(MaxFaultStreams, MaxStreams)
    /\ db = NoDb
    /\ operation = "Write"
    /\ feature_v2 = FALSE
    /\ NoDecode

\* runs without faults, with every stream the caller may open
InitStreams ==
    /\ Start
    /\ nfail = MaxFail
    /\ qlimit = MaxStreams
    /\ db = NoDb
    /\ operation = "Write"
    /\ feature_v2 = FALSE
    /\ NoDecode

\* fault-free runs over every target database and mode
InitQuery ==
    /\ Start
    /\ nfail = MaxFail
    /\ qlimit = Min(MaxFaultStreams, MaxStreams)
    /\ db \in {NoDb} \cup Dbs
    /\ operation \in Operations
    /\ feature_v2 = FALSE
    /\ NoDecode

\* runs of either build, with faults, run_queries and another lessee of the pool
InitBatch ==
    /\ Start
    /\ nfail = 0
    /\ qlimit = Min(MaxFaultStreams, MaxStreams)
    /\ db = NoDb
    /\ operation \in Operations
    /\ feature_v2 \in BOOLEAN
    /\ NoDecode

\* ---------------------------------------------------------------- Txn::new
new_send ==
    /\ txn = "none"
    /\ conn = "leased"
    /\ CanBorrow
    /\ Send(Msg("BEGIN", 0, 0))
    /\ cur' = Call("new", 0)
    /\ UNCHANGED <<txn, conn, connBad, fetch_size, result, beginResp, termResp,
                   runs, nfail, qlimit, streamVars, serverVars>>
    /\ UNCHANGED <<queryVars, stamped, leaseVars, batchVars, serdeVars>>

new_recv ==
    /\ cur.op = "new"
    /\ \E k \in Kinds :
        /\ Recv(k, 0, <<>>)
        /\ beginResp' = k
        /\ result' = new_result(k)
        /\ IF new_result(k).ok
           THEN txn' = "begun" /\ conn' = conn
           ELSE txn' = "failed" /\ conn' = Release(connBad')
    /\ cur' = Idle
    /\ UNCHANGED <<fetch_size, termResp, runs, qlimit, streamVars>>
    /\ UNCHANGED <<queryVars, stamped, leaseVars, batchVars, serdeVars>>

\* ---------------------------------------------------------------- Txn::run
run_send ==
    /\ txn = "begun"
    /\ CanBorrow
    /\ runs < MaxRuns
    /\ runs' = runs + 1
    /\ Send(Msg("RUN", 0, 0))
    /\ cur' = Call("run", 0)
    /\ UNCHANGED <<txn, conn, connBad, fetch_size, result, beginResp, termResp,
                   nfail, qlimit, streamVars, serverVars>>
    /\ stamped' = stamped \cup {[call |-> "run", extras |-> run_extras]}
    /\ UNCHANGED <<queryVars, leaseVars, batchVars, serdeVars>>

\* run borrows the handle (`&mut self`) and hands back whatever query.run returned
run_recv_ends ==
    /\ cur.op = "run"
    /\ \E k \in Kinds :
        /\ Recv(k, 0, <<>>)
        /\ result' = IF k = "SUCCESS" THEN Ok("run")
                     ELSE IF k = "IOERR" THEN IoErr("run")
                     ELSE into_error("run", "RUN")
        /\ txn' = IF k = "SUCCESS" THEN txn ELSE AfterTerminal
    /\ cur' = Idle
    /\ UNCHANGED <<conn, fetch_size, beginResp, termResp, runs, qlimit, streamVars>>
    /\ UNCHANGED <<queryVars, stamped, leaseVars, batchVars, serdeVars>>
run_recv ==
    /\ cur.op = "run"
    /\ \E k \in Kinds :
        /\ Recv(k, 0, <<>>)
        /\ result' = IF k = "SUCCESS" THEN Ok("run")
                     ELSE IF k = "IOERR" THEN IoErr("run")
                     ELSE into_error("run", "RUN")
    /\ cur' = Idle
    /\ UNCHANGED <<txn, conn, fetch_size, beginResp, termResp, runs, qlimit, streamVars>>
    /\ UNCHANGED <<queryVars, stamped, leaseVars, batchVars, serdeVars>>

\* ---------------------------------------------------------------- Txn::commit / rollback
commit_send ==
    /\ txn = "begun"
    /\ CanBorrow
    /\ txn' = AfterTerminal
    /\ Send(Msg("COMMIT", 0, 0))
    /\ cur' = Call("commit", 0)
    /\ UNCHANGED <<conn, connBad, fetch_size, result, beginResp, termResp,
                   runs, nfail, qlimit, streamVars, serverVars>>
    /\ UNCHANGED <<queryVars, stamped, leaseVars, batchVars, serdeVars>>

commit_recv ==
    /\ cur.op = "commit"
    /\ \E k \in Kinds :
        /\ Recv(k, 0, <<>>)
        /\ termResp' = k
        /\ result' = commit_result(k)
        /\ conn' = Release(connBad')
    /\ cur' = Idle
    /\ UNCHANGED <<txn, fetch_size, beginResp, runs, qlimit, streamVars>>
    /\ UNCHANGED <<queryVars, stamped, leaseVars, batchVars, serdeVars>>

rollback_send ==
    /\ txn = "begun"
    /\ CanBorrow
    /\ txn' = AfterTerminal
    /\ Send(Msg("ROLLBACK", 0, 0))
    /\ cur' = Call("rollback", 0)
    /\ UNCHANGED <<conn, connBad, fetch_size, result, beginResp, termResp,
                   runs, nfail, qlimit, streamVars, serverVars>>
    /\ UNCHANGED <<queryVars, stamped, leaseVars, batchVars, serdeVars>>

rollback_recv ==
    /\ cur.op = "rollback"
    /\ \E k \in Kinds :
        /\ Recv(k, 0, <<>>)
        /\ termResp' = k
        /\ result' = rollback_result(k)
        /\ conn' = Release(connBad')
    /\ cur' = Idle
    /\ UNCHANGED <<txn, fetch_size, beginResp, runs, qlimit, streamVars>>
    /\ UNCHANGED <<queryVars, stamped, leaseVars, batchVars, serdeVars>>

\* the caller lets the handle go out of scope: Txn has no Drop of its own,
\* its fields are dropped and the connection goes back to the pool
drop_txn ==
    /\ txn = "begun"
    /\ CanBorrow
    /\ conn = "leased"
    /\ txn' = "dropped"
    /\ conn' = Release(connBad)
    /\ UNCHANGED <<connBad, fetch_size, sent, late, inflight, cur, result, beginResp,
                   termResp, runs, nfail, qlimit, streamVars, serverVars>>
    /\ UNCHANGED <<queryVars, stamped, leaseVars, batchVars, serdeVars>>

\* ---------------------------------------------------------------- Txn::execute
\* the next unused query id
NextQ == CHOOSE q \in Streams : status[q] = "unopened" /\ \A p \in Streams : p < q => status[p] # "unopened"

execute_send ==
    /\ txn = "begun"
    /\ CanBorrow
    /\ \E q \in Streams : status[q] = "unopened" /\ q <= qlimit
    /\ Send(Msg("RUN", NextQ, 0))
    /\ cur' = Call("execute_run", NextQ)
    /\ UNCHANGED <<txn, conn, connBad, fetch_size, result, beginResp, termResp,
                   runs, nfail, qlimit, streamVars, serverVars>>
    /\ stamped' = stamped \cup {[call |-> "execute", extras |-> execute_extras]}
    /\ UNCHANGED <<queryVars, leaseVars, batchVars, serdeVars>>

\* RUN answered: on SUCCESS the first PULL for the new result follows
execute_recv_run ==
    /\ cur.op = "execute_run"
    /\ \E k \in Kinds, n \in RowCounts :
        /\ k # "SUCCESS" => n = 0
        /\ IF k = "SUCCESS"
           THEN /\ Recv(k, n, <<Msg("PULL", cur.q, ExecuteFetchSize)>>)
                /\ cur' = Call("execute_pull", cur.q)
                /\ qsize' = [qsize EXCEPT ![cur.q] = ExecuteFetchSize]
                /\ pulls' = [pulls EXCEPT ![cur.q] = @ + 1]
                /\ UNCHANGED <<result, sfail>>
           ELSE /\ Recv(k, n, <<>>)
                /\ cur' = Idle
                /\ result' = IF k = "IOERR" THEN IoErr("execute")
                             ELSE into_error("execute", "RUN")
                /\ sfail' = [sfail EXCEPT ![cur.q] = TRUE]
                /\ UNCHANGED <<qsize, pulls>>
    /\ UNCHANGED <<txnVars, status, buf, hasMore, yielded, nones, discardFailed>>
    /\ UNCHANGED <<queryVars, stamped, leaseVars, batchVars, serdeVars>>

\* first PULL answered: the stream exists with its first batch
execute_recv_pull ==
    /\ cur.op = "execute_pull"
    /\ \E k \in Kinds :
        LET resp == Answer(Head(inflight), k) IN
        /\ Recv(k, 0, <<>>)
        /\ IF k = "SUCCESS"
           THEN /\ status' = [status EXCEPT ![cur.q] = "open"]
                /\ buf' = [buf EXCEPT ![cur.q] = resp.rows]
                /\ hasMore' = [hasMore EXCEPT ![cur.q] = resp.more]
                /\ result' = Ok("execute")
                /\ UNCHANGED sfail
           ELSE /\ result' = IF k = "IOERR" THEN IoErr("execute")
                             ELSE into_error("execute", "PULL")
                /\ sfail' = [sfail EXCEPT ![cur.q] = TRUE]
                /\ UNCHANGED <<status, buf, hasMore>>
    /\ cur' = Idle
    /\ UNCHANGED <<txnVars, qsize, yielded, pulls, nones, discardFailed>>
    /\ UNCHANGED <<queryVars, stamped, leaseVars, batchVars, serdeVars>>

\* ---------------------------------------------------------------- RowStream
Exhausted(q) == status[q] # "unopened" /\ buf[q] = <<>> /\ ~hasMore[q]

\* next() refills only when the buffer is empty and the server has more
NeedsPull_always(q) == buf[q] = <<>>
NeedsPull(q) == buf[q] = <<>> /\ hasMore[q]

\* a stream dropped before it is exhausted leaves a result to discard
NeedsDiscard_never(q) == FALSE
NeedsDiscard(q) == ~Exhausted(q)

\* next(): a buffered row is present
next_row(q) ==
    /\ txn = "begun"
    /\ CanBorrow
    /\ status[q] = "open"
    /\ buf[q] # <<>>
    /\ yielded' = [yielded EXCEPT ![q] = Append(@, Head(buf[q]))]
    /\ buf' = [buf EXCEPT ![q] = Tail(@)]
    /\ result' = Ok("next_row")
    /\ UNCHANGED <<txnVars, connBad, sent, late, inflight, cur, nfail, status, qsize,
                   hasMore, pulls, nones, sfail, discardFailed, serverVars>>
    /\ UNCHANGED <<queryVars, stamped, leaseVars, batchVars, serdeVars>>

\* next(): buffer empty and has-more, a PULL is issued
next_pull(q) ==
    /\ txn = "begun"
    /\ CanBorrow
    /\ status[q] = "open"
    /\ NeedsPull(q)
    /\ Send(Msg("PULL", q, qsize[q]))
    /\ pulls' = [pulls EXCEPT ![q] = @ + 1]
    /\ cur' = Call("next", q)
    /\ UNCHANGED <<txnVars, connBad, result, nfail, status, qsize, buf, hasMore,
                   yielded, nones, sfail, discardFailed, serverVars>>
    /\ UNCHANGED <<queryVars, stamped, leaseVars, batchVars, serdeVars>>

\* next(): the batch arrives, the buffer is refilled and the call retries
next_recv ==
    /\ cur.op = "next"
    /\ \E k \in Kinds :
        LET resp == Answer(Head(inflight), k)
            q == cur.q IN
        /\ Recv(k, 0, <<>>)
        /\ IF k = "SUCCESS"
           THEN /\ hasMore' = [hasMore EXCEPT ![q] = resp.more]
                /\ IF resp.rows # <<>>
                   THEN /\ yielded' = [yielded EXCEPT ![q] = Append(@, Head(resp.rows))]
                        /\ buf' = [buf EXCEPT ![q] = Tail(resp.rows)]
                        /\ result' = Ok("next_row")
                        /\ UNCHANGED nones
                   ELSE /\ nones' = [nones EXCEPT ![q] = @ + 1]
                        /\ result' = Ok("next_none")
                        /\ UNCHANGED <<yielded, buf>>
                /\ UNCHANGED sfail
           ELSE /\ result' = IF k = "IOERR" THEN IoErr("next")
                             ELSE into_error("next", "PULL")
                /\ sfail' = [sfail EXCEPT ![q] = TRUE]
                /\ UNCHANGED <<hasMore, yielded, buf, nones>>
    /\ cur' = Idle
    /\ UNCHANGED <<txnVars, status, qsize, pulls, discardFailed>>
    /\ UNCHANGED <<queryVars, stamped, leaseVars, batchVars, serdeVars>>

\* next(): buffer empty and no more rows, "no more rows" without an exchange
next_none(q) ==
    /\ txn = "begun"
    /\ CanBorrow
    /\ status[q] = "open"
    /\ buf[q] = <<>>
    /\ ~hasMore[q]
    /\ nones[q] < MaxNone
    /\ nones' = [nones EXCEPT ![q] = @ + 1]
    /\ result' = Ok("next_none")
    /\ UNCHANGED <<txnVars, connBad, sent, late, inflight, cur, nfail, status, qsize,
                   buf, hasMore, yielded, pulls, sfail, discardFailed, serverVars>>
    /\ UNCHANGED <<queryVars, stamped, leaseVars, batchVars, serdeVars>>

\* the caller drops an exhausted stream: nothing is left to discard
drop_stream_done(q) ==
    /\ txn = "begun"
    /\ CanBorrow
    /\ status[q] = "open"
    /\ ~NeedsDiscard(q)
    /\ status' = [status EXCEPT ![q] = "dropped"]
    /\ UNCHANGED <<txnVars, connBad, sent, late, inflight, cur, result, nfail, qsize,
                   buf, hasMore, yielded, pulls, nones, sfail, discardFailed, serverVars>>
    /\ UNCHANGED <<queryVars, stamped, leaseVars, batchVars, serdeVars>>

\* the caller drops a stream early: its result is discarded on the connection
drop_stream_send(q) ==
    /\ txn = "begun"
    /\ CanBorrow
    /\ status[q] = "open"
    /\ NeedsDiscard(q)
    /\ status' = [status EXCEPT ![q] = "dropped"]
    /\ Send(Msg("DISCARD", q, 0))
    /\ cur' = Call("drop", q)
    /\ UNCHANGED <<txnVars, connBad, result, nfail, qsize, buf, hasMore,
                   yielded, pulls, nones, sfail, discardFailed, serverVars>>
    /\ UNCHANGED <<queryVars, stamped, leaseVars, batchVars, serdeVars>>

drop_stream_recv ==
    /\ cur.op = "drop"
    /\ \E k \in Kinds :
        /\ Recv(k, 0, <<>>)
        /\ sfail' = [sfail EXCEPT ![cur.q] = @ \/ k # "SUCCESS"]
        /\ discardFailed' = (discardFailed \/ k # "SUCCESS")
    /\ cur' = Idle
    /\ UNCHANGED <<txnVars, result, status, qsize, buf, hasMore, yielded,
                   pulls, nones>>
    /\ UNCHANGED <<queryVars, stamped, leaseVars, batchVars, serdeVars>>

Next ==
    \/ new_send
    \/ new_recv
    \/ run_send
    \/ run_recv
    \/ commit_send
    \/ commit_recv
    \/ rollback_send
    \/ rollback_recv
    \/ drop_txn
    \/ execute_send
    \/ execute_recv_run
    \/ execute_recv_pull
    \/ \E q \in Streams : next_row(q)
    \/ \E q \in Streams : next_pull(q)
    \/ next_recv
    \/ \E q \in Streams : next_none(q)
    \/ \E q \in Streams : drop_stream_done(q)
    \/ \E q \in Streams : drop_stream_send(q)
    \/ drop_stream_recv

Spec == Init /\ [][Next]_vars

\* the handle and its streams without run(), for the fault-free runs
NextStreams ==
    \/ new_send
    \/ new_recv
    \/ commit_send
    \/ commit_recv
    \/ rollback_send
    \/ rollback_recv
    \/ drop_txn
    \/ execute_send
    \/ execute_recv_run
    \/ execute_recv_pull
    \/ \E q \in Streams : next_row(q)
    \/ \E q \in Streams : next_pull(q)
    \/ next_recv
    \/ \E q \in Streams : next_none(q)
    \/ \E q \in Streams : drop_stream_done(q)
    \/ \E q \in Streams : drop_stream_send(q)
    \/ drop_stream_recv

SpecStreams == InitStreams /\ [][NextStreams]_vars

SpecQuery == InitQuery /\ [][Next]_vars

\* ---------------------------------------------------------------- Txn::run_queries
\* the queries a caller may hand over: each batch lists distinct queries
Queries == 1..MaxBatch
Batches == {b \in UNION {[1..n -> Queries] : n \in 1..MaxBatch} :
                \A i, j \in 1..Len(b) : b[i] = b[j] => i = j}

\* `self.run(query.into()).await?`: the loop goes on only after an Ok
Try_ignore(k) == TRUE
Try(k) == k = "SUCCESS"

\* an empty batch: the loop body never runs
run_queries_empty ==
    /\ txn = "begun"
    /\ CanBorrow
    /\ summary.state = "none"
    /\ summary' = run_queries_ok(Zero)
    /\ result' = Ok("run_queries")
    /\ UNCHANGED <<txnVars, connBad, sent, late, inflight, cur, nfail, streamVars,
                   serverVars, queryVars, stamped, leaseVars, feature_v2, queries,
                   batch, dispatched, counters, statsLog, serdeVars>>

\* the first query of the batch is dispatched through self.run
run_queries_send ==
    /\ txn = "begun"
    /\ CanBorrow
    /\ summary.state = "none"
    /\ \E b \in Batches :
        /\ queries' = b
        /\ dispatched' = <<Head(b)>>
        /\ batch' = Tail(b)
    /\ summary' = [summary EXCEPT !.state = "running"]
    /\ counters' = Zero
    /\ Send(Msg("RUN", 0, 0))
    /\ stamped' = stamped \cup {[call |-> "run", extras |-> run_extras]}
    /\ cur' = Call("run_queries", 0)
    /\ UNCHANGED <<txnVars, connBad, result, nfail, streamVars, serverVars,
                   queryVars, leaseVars, feature_v2, statsLog, serdeVars>>

\* a query of the batch is answered: on success its stats are merged (v2
\* build) and the next query is dispatched, or the call returns; anything
\* else ends the call with the error
run_queries_recv ==
    /\ cur.op = "run_queries"
    /\ \E k \in Kinds, s \in Stats :
        /\ k # "SUCCESS" => s = Zero
        /\ IF Try(k)
           THEN /\ statsLog' = Append(statsLog, s)
                /\ counters' = IF feature_v2 THEN merge(counters, s) ELSE counters
                /\ IF batch # <<>>
                   THEN /\ Recv(k, 0, <<Msg("RUN", 0, 0)>>)
                        /\ dispatched' = Append(dispatched, Head(batch))
                        /\ batch' = Tail(batch)
                        /\ stamped' = stamped \cup {[call |-> "run", extras |-> run_extras]}
                        /\ UNCHANGED <<cur, result, summary>>
                   ELSE /\ Recv(k, 0, <<>>)
                        /\ cur' = Idle
                        /\ result' = Ok("run_queries")
                        /\ summary' = run_queries_ok(counters')
                        /\ UNCHANGED <<batch, dispatched, stamped>>
           ELSE /\ Recv(k, 0, <<>>)
                /\ cur' = Idle
                /\ result' = IF k = "IOERR" THEN IoErr("run_queries")
                             ELSE into_error("run_queries", "RUN")
                /\ summary' = [summary EXCEPT !.state = "err"]
                /\ UNCHANGED <<batch, dispatched, stamped, counters, statsLog>>
    /\ UNCHANGED <<txnVars, streamVars, queryVars, leaseVars, feature_v2, queries, serdeVars>>

\* ---------------------------------------------------------------- another lessee
\* some other transaction or component writes a request on the connection
other_send ==
    /\ Leasable
    /\ otherSent < MaxOther
    /\ otherSent' = otherSent + 1
    /\ foreign' = IF conn = "leased" /\ beginResp = "SUCCESS" THEN foreign + 1 ELSE foreign
    /\ UNCHANGED <<txnVars, connBad, sent, late, inflight, cur, result, nfail,
                   streamVars, serverVars, queryVars, stamped, batchVars, serdeVars>>

NextBatch ==
    \/ new_send
    \/ new_recv
    \/ run_send
    \/ run_recv
    \/ run_queries_empty
    \/ run_queries_send
    \/ run_queries_recv
    \/ commit_send
    \/ commit_recv
    \/ rollback_send
    \/ rollback_recv
    \/ drop_txn
    \/ other_send

SpecBatch == InitBatch /\ [][NextBatch]_vars

\* ---------------------------------------------------------------- properties
Max(a, b) == IF a > b THEN a ELSE b
Ceil(n, f) == (n + f - 1) \div f
AllRows(q) == RowsOf(q, 0, srvN[q])
Released == conn # "leased"

\* C1: for every transaction exactly one BEGIN was sent and exactly one of
\* COMMIT / ROLLBACK was sent on its connection by the time the connection
\* is back in the pool, however the handle's life ended (dropping included).
C1_OneBeginOneTerminal ==
    (Released /\ txn \in {"consumed", "dropped"}) =>
        /\ sent["BEGIN"] = 1
        /\ sent["COMMIT"] + sent["ROLLBACK"] = 1

\* C2: when BEGIN is answered with anything but SUCCESS, Txn::new returns an
\* error, no handle exists, and no RUN, PULL, COMMIT or ROLLBACK is ever sent.
C2_BeginFailureNoHandle ==
    beginResp \notin {"none", "SUCCESS"} =>
        /\ txn = "failed"
        /\ result.op = "new" /\ ~result.ok
        /\ sent["RUN"] = 0 /\ sent["PULL"] = 0
        /\ sent["COMMIT"] = 0 /\ sent["ROLLBACK"] = 0

C2_Witness == beginResp = "FAILURE" /\ txn = "failed" /\ Released

\* C3: commit and rollback send exactly one terminal message and consume the
\* handle: at most one of COMMIT / ROLLBACK is ever sent, nothing is sent
\* after it, and once a terminal call was made the handle stays consumed.
C3_TerminalConsumesHandle ==
    /\ sent["COMMIT"] + sent["ROLLBACK"] <= 1
    /\ late = 0
    /\ TerminalSent => txn = "consumed"

C3_Witness == txn = "consumed" /\ termResp = "FAILURE" /\ cur = Idle /\ sent["RUN"] > 0

\* C4: at most one request is outstanding on the connection at any time,
\* whatever the caller interleaves on the handle and its streams.
C4_OneOutstanding == Len(inflight) <= 1

C4_Witness ==
    /\ Len(inflight) = 1
    /\ inflight[1].op = "PULL" /\ inflight[1].q = 1 /\ cur.op = "next"
    /\ status[2] = "open" /\ yielded[2] # <<>> /\ ~Exhausted(2)

\* C5: streams opened from one transaction and advanced in any interleaving
\* each yield the rows of their own query only, once each and in order, lose
\* none of the rows the server sent, and report the end only after the last.
C5_StreamsKeepTheirRows ==
    \A q \in Streams :
        /\ Len(yielded[q]) <= srvN[q]
        /\ yielded[q] = RowsOf(q, 0, Len(yielded[q]))
        /\ status[q] # "unopened" => yielded[q] \o buf[q] = RowsOf(q, 0, srvSent[q])
        /\ nones[q] > 0 => yielded[q] = AllRows(q)

\* both streams are part-way through their rows at the same moment, each
\* having been refilled by its own PULL
C5_Witness ==
    /\ status[1] = "open" /\ status[2] = "open"
    /\ srvN[1] = 2 /\ srvN[2] = 2 /\ fetch_size = 1
    /\ Len(yielded[1]) = 2 /\ pulls[1] = 2
    /\ Len(yielded[2]) = 1 /\ hasMore[2]
    /\ txn = "begun"

\* C6 (as stated): a stream over N rows with fetch size F issues ceil(N/F)
\* PULLs, the last answered has-more = false, and next() returns None exactly
\* once, only after all N rows were yielded once each in order.
C6_PaginationAsStated ==
    \A q \in Streams :
        /\ (Exhausted(q) /\ ~sfail[q]) => pulls[q] = Ceil(srvN[q], fetch_size)
        /\ nones[q] <= 1
        /\ nones[q] > 0 => yielded[q] = AllRows(q)

\* C6 (amended): a stream over N rows with fetch size F issues ceil(N/F)
\* PULLs when N >= 1 and one PULL when N = 0, the last answered has-more =
\* false; next() returns None only after all N rows were yielded once each in
\* order.
C6_Pagination ==
    \A q \in Streams :
        /\ ~sfail[q] => pulls[q] <= Max(1, Ceil(srvN[q], fetch_size))
        /\ (Exhausted(q) /\ ~sfail[q]) =>
              /\ pulls[q] = Max(1, Ceil(srvN[q], fetch_size))
              /\ srvSent[q] = srvN[q]
              /\ yielded[q] = AllRows(q)
        /\ nones[q] > 0 => (Exhausted(q) /\ yielded[q] = AllRows(q))

C6_Witness ==
    \E q \in Streams :
        /\ Exhausted(q) /\ ~sfail[q] /\ nones[q] > 0
        /\ srvN[q] = 2 /\ fetch_size = 1 /\ pulls[q] = 2

\* C7: a stream with an empty buffer and has-more = false is Exhausted for
\* good: it stays so, yields nothing more, sends no PULL, and every next()
\* on it returns None without any request being written.
C7_ExhaustedAbsorbing ==
    [][\A q \in Streams :
          Exhausted(q) =>
              /\ Exhausted(q)'
              /\ yielded'[q] = yielded[q]
              /\ pulls'[q] = pulls[q]
              /\ nones'[q] # nones[q] =>
                    (sent' = sent /\ inflight' = inflight /\ result'.op = "next_none")]_vars

C7_Witness == \E q \in Streams : Exhausted(q) /\ nones[q] = MaxNone /\ srvN[q] = 2 /\ pulls[q] = 2

Expected(op, k, tag) ==
    /\ result.ok = (k = "SUCCESS")
    /\ result.tag = (IF k = "FAILURE" THEN tag ELSE "")
    /\ result.err = (IF k = "SUCCESS" THEN "none" ELSE IF k = "FAILURE" THEN "unexpected" ELSE "io")

C10_ErrorsTaggedByOperation ==
    /\ result.op = "new" => Expected("new", beginResp, "BEGIN")
    /\ result.op = "commit" => Expected("commit", termResp, "COMMIT")
    /\ result.op = "rollback" => Expected("rollback", termResp, "ROLLBACK")

C10_Witness == result = into_error("new", "BEGIN") /\ beginResp = "FAILURE"

\* ---------------------------------------------------------------- properties of the query extras, run_queries and the lease
ModeOf(op) == IF op = "Read" THEN "r" ELSE "w"

RECURSIVE SumStats(_)
SumStats(log) ==
    IF log = <<>> THEN Zero
    ELSE LET rest == SumStats(Tail(log))
         IN [nodes |-> Head(log).nodes + rest.nodes, props |-> Head(log).props + rest.props]

\* C11: every query dispatched by run or execute carries the extra "mode",
\* "r" for a Read transaction and "w" for a Write one, and carries the extra
\* "db" with the transaction's database exactly when the transaction has one;
\* all queries of the transaction carry the same two values.
C11_ExtrasStamped ==
    /\ \A s \in stamped :
        /\ s.extras.mode = ModeOf(operation)
        /\ s.extras.db = (IF db = NoDb THEN Absent ELSE db)
    /\ \A s, t \in stamped : s.extras = t.extras

C11_Witness ==
    /\ db \in Dbs
    /\ operation = "Read"
    /\ \E s, t \in stamped : s.call = "run" /\ t.call = "execute"

C13_ExclusiveConnection == foreign = 0

C13_Witness ==
    /\ otherSent > 0
    /\ beginResp = "SUCCESS"
    /\ sent["COMMIT"] = 1
    /\ foreign = 0

\* C28: a run or execute call that returns an error leaves the transaction
\* open: the handle still holds the connection, no ROLLBACK or COMMIT has been
\* sent on its behalf, and commit, rollback, run and execute can still be
\* called and write their request on that connection.
C28_ErrorKeepsHandle ==
    (cur.op = "idle" /\ result.op \in {"run", "execute"} /\ ~result.ok /\ txn # "dropped") =>
        /\ txn = "begun"
        /\ conn = "leased"
        /\ sent["ROLLBACK"] = 0 /\ sent["COMMIT"] = 0
        /\ ENABLED commit_send
        /\ ENABLED rollback_send
        /\ runs < MaxRuns => ENABLED run_send
        /\ (\E q \in Streams : status[q] = "unopened" /\ q <= qlimit) => ENABLED execute_send

C28_Witness ==
    /\ result.op = "commit" /\ result.ok
    /\ beginResp = "SUCCESS"
    /\ nfail > 0
    /\ runs > 0
    /\ \A q \in Streams : status[q] = "unopened" /\ ~sfail[q]
    /\ sent["RUN"] = 1
    /\ sent["COMMIT"] = 1

IsPrefix(a, b) == Len(a) <= Len(b) /\ \A i \in 1..Len(a) : a[i] = b[i]

\* C27: run_queries passes its queries to run in the order given and stops at
\* the first one whose run fails: that error is returned, no later query of
\* the batch is sent, and run_queries itself sends no COMMIT and no ROLLBACK.
C27_StopsAtFirstFailure ==
    /\ [](/\ IsPrefix(dispatched, queries)
          /\ summary.state = "ok" => dispatched = queries
          /\ summary.state = "err" => Len(dispatched) = Len(statsLog) + 1)
    /\ [][cur.op = "run_queries" =>
            /\ sent'["COMMIT"] = sent["COMMIT"]
            /\ sent'["ROLLBACK"] = sent["ROLLBACK"]
            /\ nfail' # nfail =>
                /\ cur' = Idle
                /\ result'.op = "run_queries" /\ ~result'.ok
                /\ summary'.state = "err"
                /\ dispatched' = dispatched
                /\ sent' = sent]_vars

C27_Witness ==
    /\ summary.state = "err"
    /\ result.op = "run_queries" /\ ~result.ok
    /\ Len(queries) = MaxBatch
    /\ queries[1] > queries[2]
    /\ dispatched = <<queries[1]>>
    /\ sent["RUN"] = 1
    /\ sent["COMMIT"] + sent["ROLLBACK"] = 0

\* ---------------------------------------------------------------- BoltType values
\* (types/serde/typ.rs)  A BoltType is a record of its variant and payload.
V(kind, val) == [kind |-> kind, val |-> val]

Temporal == {"Duration", "Date", "Time", "LocalTime", "LocalDateTime", "DateTimeZoneId"}
Elements == {"Node", "Relation", "UnboundedRelation", "Path"}
Points == {"Point2D", "Point3D"}

\* an i64 as three limbs <<h, m, l>> standing for h * 2^32 + m * 2^16 + l,
\* with 0 <= m, l < 2^16 and -2^31 <= h < 2^31
Limb == 65536
i64(n) == <<(n \div Limb) \div Limb, (n \div Limb) % Limb, n % Limb>>
I64Min == <<-2147483647 - 1, 0, 0>>
I64Max == <<2147483647, Limb - 1, Limb - 1>>

Less(a, b) ==
    \/ a[1] < b[1]
    \/ a[1] = b[1] /\ a[2] < b[2]
    \/ a[1] = b[1] /\ a[2] = b[2] /\ a[3] < b[3]
Leq(a, b) == a = b \/ Less(a, b)

IntTypes == {"i8", "i16", "i32", "i64", "u8", "u16", "u32", "u64"}
Signed(ty) == ty \in {"i8", "i16", "i32", "i64"}
Bits(ty) ==
    CASE ty \in {"i8", "u8"} -> 8
      [] ty \in {"i16", "u16"} -> 16
      [] ty \in {"i32", "u32"} -> 32
      [] ty \in {"i64", "u64"} -> 64

\* T::MIN and T::MAX as far as an i64 can reach them
TypeMin(ty) ==
    IF ~Signed(ty) THEN i64(0)
    ELSE CASE Bits(ty) = 8 -> i64(-128)
           [] Bits(ty) = 16 -> i64(-32768)
           [] Bits(ty) = 32 -> <<-1, 32768, 0>>
           [] Bits(ty) = 64 -> I64Min
TypeMax(ty) ==
    CASE ty = "i8" -> i64(127)
      [] ty = "u8" -> i64(255)
      [] ty = "i16" -> i64(32767)
      [] ty = "u16" -> i64(65535)
      [] ty = "i32" -> <<0, 32767, Limb - 1>>
      [] ty = "u32" -> <<0, Limb - 1, Limb - 1>>
      [] ty \in {"i64", "u64"} -> I64Max

\* the integers decoded: the edges of every target type and the values next to them
IntSamples ==
    {i64(n) : n \in {-32769, -32768, -129, -128, -1, 0, 42, 127, 128, 255, 256,
                     1337, 32767, 32768, 65535, 65536}}
    \cup {<<-1, 32767, Limb - 1>>, <<-1, 32768, 0>>, <<0, 32767, Limb - 1>>,
          <<0, 32768, 0>>, <<0, Limb - 1, Limb - 1>>, <<1, 0, 0>>, I64Min, I64Max}

Null == V("Null", "null")
Int42 == V("Integer", i64(42))
Int1337 == V("Integer", i64(1337))
Alice == V("String", "Alice")
Float1337 == V("Float", "13.37")
Hello == V("Bytes", <<72, 105>>)
Props == [k \in {"name"} |-> Alice]
Node1 == V("Node", [id |-> 1, labels |-> <<"Person">>, properties |-> Props])
Rel1 == V("Relation", [id |-> 7, start_node_id |-> 1, end_node_id |-> 2, typ |-> "KNOWS",
                       properties |-> Props])
URel1 == V("UnboundedRelation", [id |-> 7, typ |-> "KNOWS", properties |-> Props])
Path1 == V("Path", [nodes |-> <<Node1>>, rels |-> <<>>, indices |-> <<>>])
P2D == V("Point2D", [sr_id |-> 420, x |-> "42.0", y |-> "13.37"])
P3D == V("Point3D", [sr_id |-> 420, x |-> "42.0", y |-> "13.37", z |-> "84.0"])
\* A date-time with what chrono says about it: chrono tells whether
\* try_to_chrono gives an instant, secs / millis / micros are timestamp(),
\* timestamp_millis() and timestamp_micros(), nanos is the timestamp in
\* nanoseconds modulo 2^64, and span tells whether that timestamp is an i64.
DT(text, chrono, secs, millis, micros, nanos, span) ==
    V("DateTime", [text |-> text, chrono |-> chrono, secs |-> secs, millis |-> millis,
                   micros |-> micros, nanos |-> nanos, span |-> span])
\* 1999-07-14T13:37:42+02:00
DateTime1 ==
    DT("1999-07-14T13:37:42+02:00", TRUE, <<0, 14220, 30342>>, <<216, 64686, 64368>>,
       <<216987, 2950, 11648>>, <<216987045, 1057, 48128>>, TRUE)
\* 3000-01-01T00:00:00+00:00, more than 2^63 nanoseconds after 1970
DateTime3000 ==
    DT("3000-01-01T00:00:00+00:00", TRUE, <<7, 37214, 52224>>, <<7567, 55884, 57344>>,
       <<7567852, 48203, 0>>, <<-1022081857, 34040, 0>>, FALSE)
\* a date-time whose offset chrono does not take
DateTimeBad == DT("", FALSE, i64(0), i64(0), i64(0), i64(0), TRUE)
TemporalAtoms == {V(k, "1999-07-14") : k \in Temporal}

Atoms ==
    {Null, V("Boolean", TRUE), V("Boolean", FALSE), Int42, Int1337, Float1337, Alice, Hello,
     Node1, Rel1, URel1, Path1, P2D, P3D, DateTime1, DateTime3000, DateTimeBad}
    \cup TemporalAtoms

\* what lists and maps are built from
ListAtoms ==
    {Null, Int42, Alice, Float1337, Node1, P2D, DateTime1, V("Date", "1999-07-14"),
     V("List", <<Int1337>>), V("Map", Props)}
MapAtoms == {Alice, Int42, Int1337, P3D, V("Time", "1999-07-14"), V("List", <<Float1337>>)}
Keys == {"name", "age", "bar"}

SeqsUpTo(S, n) == UNION {[1..k -> S] : k \in 0..n}

Lists == {V("List", l) : l \in SeqsUpTo(ListAtoms, MaxList) \cup {<<a>> : a \in Atoms}}
Maps == {V("Map", m) : m \in UNION {[K -> MapAtoms] : K \in SUBSET Keys}}

Values == Atoms \cup {V("Integer", n) : n \in IntSamples} \cup Lists \cup Maps

\* ---------------------------------------------------------------- target types
R(kind, arg) == [kind |-> kind, arg |-> arg]
ToBoltType == R("BoltType", "")
ToStr == R("String", "")
ToInt(ty) == R("Int", ty)
ToOption(inner) == R("Option", inner)
ToTuple(items) == R("Tuple", items)
\* struct Person { name: String, age: u8 }, with or without deny_unknown_fields
ToPerson(deny) == R("Person", deny)
ToBool == R("Bool", "")
ToFloat(ty) == R("Float", ty)
ToBytes == R("Bytes", "")
ToUnit == R("Unit", "")
\* a field read through chrono::serde::ts_seconds, ts_milliseconds, ..
ToTimestamp(visitor) == R("Timestamp", visitor)
ToVec(item) == R("Vec", item)
\* a struct with one unnamed field: the markers of serde/mod.rs, or a wrapper
ToNewtype(name) == R("Newtype", name)
\* a struct declaring the fields in the order given, markers by their type
ToEntity(fields) == R("Entity", fields)

Fields == <<"name", "age">>
FieldType(f) == IF f = "name" THEN ToStr ELSE ToInt("u8")

ItemTypes == {ToStr, ToInt("u8"), ToBoltType}
InnerTypes == {ToBoltType, ToStr, ToInt("i8"), ToInt("i64")}

FloatTypes == {"f32", "f64"}
TimestampVisitors ==
    {"chrono::datetime::serde::SecondsTimestampVisitor",
     "chrono::datetime::serde::MilliSecondsTimestampVisitor",
     "chrono::datetime::serde::MicroSecondsTimestampVisitor",
     "chrono::datetime::serde::NanoSecondsTimestampVisitor"}
VecItems == {ToInt("u8"), ToStr, ToBoltType, ToFloat("f64")}
Markers == {"Id", "StartNodeId", "EndNodeId", "Labels", "Type", "Keys"}
EntityFields == Markers \cup {"name"}
Declarations ==
    {d \in UNION {[1..n -> EntityFields] : n \in 1..MaxFields} :
        \A i, j \in 1..Len(d) : d[i] = d[j] => i = j}

Requests ==
    {ToBoltType, ToStr, ToBool, ToBytes, ToUnit}
    \cup {ToFloat(ty) : ty \in FloatTypes}
    \cup {ToTimestamp(visitor) : visitor \in TimestampVisitors}
    \cup {ToVec(item) : item \in VecItems}
    \cup {ToNewtype(name) : name \in Markers \cup {"Wrapper"}}
    \cup {ToEntity(d) : d \in Declarations}
    \cup {ToInt(ty) : ty \in IntTypes}
    \cup {ToOption(r) : r \in InnerTypes}
    \cup {ToTuple(items) : items \in SeqsUpTo(ItemTypes, MaxTuple)}
    \cup {ToPerson(deny) : deny \in BOOLEAN}

\* ---------------------------------------------------------------- results
NoErr == [kind |-> "none"]
DeOk(x) == [state |-> "ok", val |-> x, err |-> NoErr]
DeErr(e) == [state |-> "err", val |-> "none", err |-> e]
\* todo!(): the thread panics, no Result is returned
Panic == [state |-> "panic", val |-> "none", err |-> [kind |-> "panic"]]

invalid_type(unexp, exp) == [kind |-> "invalid_type", unexp |-> unexp, exp |-> exp]
IntegerOutOfBounds(n, ty) == [kind |-> "IntegerOutOfBounds", int |-> n, ty |-> ty]
unknown_field(k) == [kind |-> "unknown_field", field |-> k]
missing_field(f) == [kind |-> "missing_field", field |-> f]
invalid_length(n) == [kind |-> "invalid_length", len |-> n]
DateTImeOutOfBounds(ty) == [kind |-> "DateTImeOutOfBounds", ty |-> ty]
custom(msg) == [kind |-> "custom", msg |-> msg]

\* BoltTypeDeserializer::unexpected
Unexp(v) ==
    CASE v.kind = "String" -> "Str"
      [] v.kind = "Boolean" -> "Bool"
      [] v.kind \in {"Map", "Node", "Relation", "UnboundedRelation"} -> "Map"
      [] v.kind = "Null" -> "Unit"
      [] v.kind = "Integer" -> "Signed"
      [] v.kind = "Float" -> "Float"
      [] v.kind = "List" -> "Seq"
      [] v.kind = "Bytes" -> "Bytes"
      [] OTHER -> "Other(" \o v.kind \o ")"
unexpected(v, exp) == DeErr(invalid_type(Unexp(v), exp))

\* ---------------------------------------------------------------- to::<BoltType>()
\* Every decode operator gives the set of results the call can have: a map
\* is visited in the iteration order of its HashMap, which is not fixed.
RECURSIVE to_BoltType(_)
RECURSIVE visit_seq(_)

\* BoltTypeVisitor::visit_seq: elements in order, `?` on the first failure
visit_seq(items) ==
    IF items = <<>> THEN {DeOk(<<>>)}
    ELSE UNION {
        IF o.state # "ok" THEN {o}
        ELSE {IF r.state # "ok" THEN r ELSE DeOk(<<o.val>> \o r.val) : r \in visit_seq(Tail(items))}
        : o \in to_BoltType(Head(items))}

\* BoltTypeVisitor::visit_map: entries in iteration order, `?` on the first failure
visit_map(m) ==
    LET outs == [k \in DOMAIN m |-> to_BoltType(m[k])]
        bad == UNION {{o \in outs[k] : o.state # "ok"} : k \in DOMAIN m}
        good == IF \A k \in DOMAIN m : \E o \in outs[k] : o.state = "ok"
                THEN {DeOk([k \in DOMAIN m |-> (CHOOSE o \in outs[k] : o.state = "ok").val])}
                ELSE {}
    IN bad \cup good

\* ElementDataDeserializer::tuple_variant with the visitor of the entity
element_data(v) ==
    CASE v.kind = "Node" ->
            DeOk(V("Node", [id |-> v.val.id, labels |-> v.val.labels,
                            properties |-> v.val.properties]))
      [] v.kind = "Relation" ->
            DeOk(V("Relation", [id |-> v.val.id, start_node_id |-> v.val.start_node_id,
                                end_node_id |-> v.val.end_node_id, typ |-> v.val.typ,
                                properties |-> v.val.properties]))
      [] v.kind = "UnboundedRelation" ->
            DeOk(V("UnboundedRelation", [id |-> v.val.id, typ |-> v.val.typ,
                                         properties |-> v.val.properties]))
      [] v.kind = "Path" ->
            DeOk(V("Path", [nodes |-> v.val.nodes, rels |-> v.val.rels,
                            indices |-> v.val.indices]))

\* BoltDateTimeVisitor::visit_map over datetime.map_access()
datetime_map_access(v) ==
    DeOk(DT(v.val.text, v.val.chrono, v.val.secs, v.val.millis, v.val.micros, v.val.nanos,
            v.val.span))

\* BoltPointDeserializer::deserialize_tuple with BoltTypeVisitor
point_tuple(v) ==
    DeOk(V("List", IF v.kind = "Point2D"
                   THEN <<V("Integer", i64(v.val.sr_id)), V("Float", v.val.x), V("Float", v.val.y)>>
                   ELSE <<V("Integer", i64(v.val.sr_id)), V("Float", v.val.x), V("Float", v.val.y),
                          V("Float", v.val.z)>>))

\* BoltEnum::tuple_variant
tuple_variant(v) ==
    CASE v.kind = "String" -> {DeOk(V("String", v.val))}
      [] v.kind = "Boolean" -> {DeOk(V("Boolean", v.val))}
      [] v.kind = "Map" ->
            {IF o.state = "ok" THEN DeOk(V("Map", o.val)) ELSE o : o \in visit_map(v.val)}
      [] v.kind = "Null" -> {DeOk(Null)}
      [] v.kind = "Integer" -> {DeOk(V("Integer", v.val))}
      [] v.kind = "Float" -> {DeOk(V("Float", v.val))}
      [] v.kind = "List" ->
            {IF o.state = "ok" THEN DeOk(V("List", o.val)) ELSE o : o \in visit_seq(v.val)}
      [] v.kind \in Elements -> {element_data(v)}
      [] v.kind \in Points -> {point_tuple(v)}
      [] v.kind = "Bytes" -> {DeOk(V("Bytes", v.val))}
      [] v.kind \in Temporal -> {Panic}
      [] v.kind = "DateTime" -> {datetime_map_access(v)}

\* BoltEnum::struct_variant
struct_variant(v) == {DeErr(invalid_type("TupleVariant", "struct variant"))}

\* BoltTypeVisitor::visit_enum: the access each variant is read through
visit_enum(v) ==
    IF v.kind \in Points THEN struct_variant(v) ELSE tuple_variant(v)

\* Deserialize for BoltType: deserialize_enum with the name of BoltType
to_BoltType(v) == visit_enum(v)

\* ---------------------------------------------------------------- numbers and strings
\* i64::try_into::<T>()
try_into_unchecked(n, ty) == TRUE
try_into(n, ty) == Leq(TypeMin(ty), n) /\ Leq(n, TypeMax(ty))

\* chrono's DateTime::timestamp_nanos: the product with 10^9 is an i64, or
\* the call panics, or (builds without overflow checks) it wraps
timestamp_nanos(dt) == IF dt.span THEN {DeOk(dt.nanos)} ELSE {Panic, DeOk(dt.nanos)}

\* read_integer: the timestamp picked by the type name of the visitor
timestamp(dt, visitor) ==
    CASE visitor = "chrono::datetime::serde::MicroSecondsTimestampVisitor" -> {DeOk(dt.micros)}
      [] visitor = "chrono::datetime::serde::MilliSecondsTimestampVisitor" -> {DeOk(dt.millis)}
      [] visitor = "chrono::datetime::serde::SecondsTimestampVisitor" -> {DeOk(dt.secs)}
      [] OTHER -> timestamp_nanos(dt)

\* BoltTypeDeserializer::read_integer followed by visit_i8 .. visit_u64
read_integer(v, ty, visitor) ==
    IF v.kind \notin {"Integer", "DateTime"} THEN {unexpected(v, ty)}
    ELSE LET integer == IF v.kind = "Integer" THEN {DeOk(v.val)}
                        ELSE IF v.val.chrono THEN timestamp(v.val, visitor)
                        ELSE {DeErr(DateTImeOutOfBounds(ty))}
         IN {IF o.state # "ok" THEN o
             ELSE IF try_into(o.val, ty) THEN o
             ELSE DeErr(IntegerOutOfBounds(o.val, ty)) : o \in integer}

\* the visitor of i8 .. u64
PrimitiveVisitor == "serde::de::impls::PrimitiveVisitor"

\* what the timestamp visitors of chrono take the integer they are given for
UnitOf(visitor) ==
    CASE visitor = "chrono::datetime::serde::SecondsTimestampVisitor" -> "s"
      [] visitor = "chrono::datetime::serde::MilliSecondsTimestampVisitor" -> "ms"
      [] visitor = "chrono::datetime::serde::MicroSecondsTimestampVisitor" -> "us"
      [] visitor = "chrono::datetime::serde::NanoSecondsTimestampVisitor" -> "ns"

\* deserialize_i64 called by a timestamp visitor of chrono
deserialize_timestamp(visitor, v) ==
    {IF o.state = "ok" THEN DeOk([unit |-> UnitOf(visitor), ts |-> o.val]) ELSE o
     : o \in read_integer(v, "i64", visitor)}

\* BoltTypeDeserializer::deserialize_str / deserialize_string
deserialize_string(v) ==
    CASE v.kind = "String" -> DeOk(v.val)
      [] v.kind = "DateTime" ->
            IF v.val.chrono THEN DeOk(v.val.text)
            ELSE DeErr(custom("Could not convert Neo4j DateTime into chrono::DateTime"))
      [] OTHER -> unexpected(v, "a string")

\* BoltTypeDeserializer::deserialize_bool
deserialize_bool(v) ==
    IF v.kind = "Boolean" THEN DeOk(v.val) ELSE unexpected(v, "a boolean")

\* FromFloat: f64 is the value itself, f32 is `f as f32`
from_float(f, ty) == IF ty = "f64" THEN f ELSE f \o " as f32"

\* BoltTypeDeserializer::read_float followed by visit_f32 / visit_f64
read_float_coerce(v, ty) ==
    IF v.kind \in {"Float", "Integer"} THEN DeOk(v.val) ELSE unexpected(v, ty)
read_float(v, ty) ==
    IF v.kind = "Float" THEN DeOk(from_float(v.val, ty)) ELSE unexpected(v, ty)

\* BoltTypeDeserializer::deserialize_bytes / deserialize_byte_buf
deserialize_bytes(v) ==
    IF v.kind = "Bytes" THEN DeOk(v.val) ELSE unexpected(v, "a byte array")

\* BoltTypeDeserializer::deserialize_unit / deserialize_unit_struct
deserialize_unit(v) ==
    IF v.kind = "Null" THEN DeOk("()") ELSE unexpected(v, "unit")

\* BoltTypeDeserializer::deserialize_ignored_any
deserialize_ignored_any_unexpected(v) == unexpected(v, "anything at all")
deserialize_ignored_any(v) == DeOk("ignored")

\* ---------------------------------------------------------------- Option, tuples, structs
Some(x) == [some |-> TRUE, val |-> x]
None == [some |-> FALSE, val |-> "none"]

RECURSIVE deserialize(_, _)
RECURSIVE tuple_visit_seq(_, _)

\* BoltTypeDeserializer::deserialize_option with the visitor of Option<T>
deserialize_option(inner, v) ==
    {IF o.state = "ok" THEN DeOk(Some(o.val)) ELSE o : o \in deserialize(inner, v)}

\* the visitor of a tuple or tuple struct: position i is read from the next
\* element; elements left over are not looked at
tuple_visit_seq(items, elems) ==
    IF items = <<>> THEN {DeOk(<<>>)}
    ELSE IF elems = <<>> THEN {DeErr(invalid_length(0))}
    ELSE UNION {
        IF o.state # "ok" THEN {o}
        ELSE {IF r.state # "ok" THEN r ELSE DeOk(<<o.val>> \o r.val)
              : r \in tuple_visit_seq(Tail(items), Tail(elems))}
        : o \in deserialize(Head(items), Head(elems))}

\* BoltTypeDeserializer::deserialize_tuple / deserialize_tuple_struct
TupleFits_prefix(v, len) == v.kind = "List" /\ Len(v.val) >= len
TupleFits(v, len) == v.kind = "List" /\ Len(v.val) = len

deserialize_tuple_from_map(items, v) ==
    IF TupleFits(v, Len(items)) THEN tuple_visit_seq(items, v.val)
    ELSE IF v.kind = "Map" /\ Cardinality(DOMAIN v.val) = Len(items)
    THEN LET order == CHOOSE f \in [1..Len(items) -> DOMAIN v.val] :
                          \A i, j \in 1..Len(items) : f[i] = f[j] => i = j
         IN tuple_visit_seq(items, [i \in 1..Len(items) |-> v.val[order[i]]])
    ELSE {unexpected(v, "a tuple")}
deserialize_tuple(items, v) ==
    IF TupleFits(v, Len(items)) THEN tuple_visit_seq(items, v.val)
    ELSE {unexpected(v, "a tuple")}

\* the visitor derived for Person: entries in iteration order; a key that is
\* no field is an error under deny_unknown_fields and is skipped through
\* deserialize_ignored_any otherwise; a field never seen is missing
FieldNames == {Fields[i] : i \in 1..Len(Fields)}
person_visit_map(deny, m) ==
    LET out(k) == IF k \in FieldNames THEN deserialize(FieldType(k), m[k])
                  ELSE IF deny THEN {DeErr(unknown_field(k))}
                  ELSE {deserialize_ignored_any(m[k])}
        bad == UNION {{o \in out(k) : o.state # "ok"} : k \in DOMAIN m}
        missing == {i \in 1..Len(Fields) : Fields[i] \notin DOMAIN m}
        first == CHOOSE i \in missing : \A j \in missing : i <= j
        field(f) == (CHOOSE o \in out(f) : o.state = "ok").val
    IN IF bad # {} THEN bad
       ELSE IF missing # {} THEN {DeErr(missing_field(Fields[first]))}
       ELSE {DeOk([name |-> field("name"), age |-> field("age")])}

\* BoltTypeDeserializer::deserialize_struct
deserialize_struct(deny, v) ==
    IF v.kind = "Map" THEN person_visit_map(deny, v.val)
    ELSE {unexpected(v, "struct Person")}

\* the visitor of Vec<T>: every element of the sequence, in order, `?` on
\* the first failure
RECURSIVE vec_visit_seq(_, _)
vec_visit_seq(item, elems) ==
    IF elems = <<>> THEN {DeOk(<<>>)}
    ELSE UNION {
        IF o.state # "ok" THEN {o}
        ELSE {IF r.state # "ok" THEN r ELSE DeOk(<<o.val>> \o r.val)
              : r \in vec_visit_seq(item, Tail(elems))}
        : o \in deserialize(item, Head(elems))}

\* one byte of SeqDeserializer::new(v.value.iter().copied()): a u8 that
\* hands itself to the visitor through visit_u8
byte_element(item, b) ==
    CASE item.kind = "Int" -> DeOk(i64(b))
      [] item.kind = "BoltType" -> DeOk(V("Integer", i64(b)))
      [] OTHER -> DeErr(invalid_type("Unsigned", "a string"))

RECURSIVE bytes_visit_seq(_, _)
bytes_visit_seq(item, bytes) ==
    IF bytes = <<>> THEN DeOk(<<>>)
    ELSE LET o == byte_element(item, Head(bytes))
             r == bytes_visit_seq(item, Tail(bytes))
         IN IF o.state # "ok" THEN o
            ELSE IF r.state # "ok" THEN r
            ELSE DeOk(<<o.val>> \o r.val)

\* BoltPointDeserializer::deserialize_seq: the coordinates by position
point_seq(v) ==
    DeOk(IF v.kind = "Point2D" THEN <<v.val.x, v.val.y>> ELSE <<v.val.x, v.val.y, v.val.z>>)

\* BoltTypeDeserializer::deserialize_seq
deserialize_seq_lenient(item, v) ==
    CASE v.kind = "List" -> vec_visit_seq(item, v.val)
      [] v.kind = "Bytes" -> {bytes_visit_seq(item, v.val)}
      [] v.kind \in Points -> {point_seq(v)}
      [] OTHER -> {DeOk(<<>>)}
deserialize_seq(item, v) ==
    CASE v.kind = "List" -> vec_visit_seq(item, v.val)
      [] v.kind = "Bytes" -> {bytes_visit_seq(item, v.val)}
      [] v.kind \in Points -> {point_seq(v)}
      [] OTHER -> {unexpected(v, "a sequence")}

\* the structural field each marker stands for
MarkerValue(name, v) ==
    CASE name = "Id" -> v.val.id
      [] name = "StartNodeId" -> v.val.start_node_id
      [] name = "EndNodeId" -> v.val.end_node_id
      [] name = "Labels" -> v.val.labels
      [] name = "Type" -> v.val.typ
      [] name = "Keys" -> DOMAIN v.val.properties

\* the markers each graph entity has a structural field for
MarkersOf(kind) ==
    CASE kind = "Node" -> {"Id", "Labels", "Keys"}
      [] kind = "Relation" -> {"Id", "StartNodeId", "EndNodeId", "Type", "Keys"}
      [] kind = "UnboundedRelation" -> {"Id", "Type", "Keys"}
      [] OTHER -> {}

\* the type inside each newtype struct
NewtypeInner(name) ==
    CASE name \in {"Id", "StartNodeId", "EndNodeId"} -> ToInt("u64")
      [] name \in {"Labels", "Keys"} -> ToVec(ToStr)
      [] name = "Type" -> ToStr
      [] name = "Wrapper" -> ToInt("i64")

\* deserialize_newtype_struct of the deserializer of a graph entity
element_newtype(name, v) == DeOk(MarkerValue(name, v))

\* BoltTypeDeserializer::deserialize_newtype_struct
deserialize_newtype_struct_transparent(name, v) ==
    IF v.kind \in Elements \cup Points THEN {element_newtype(name, v)}
    ELSE deserialize(NewtypeInner(name), v)
deserialize_newtype_struct(name, v) ==
    IF v.kind \in Elements \cup Points THEN {element_newtype(name, v)}
    ELSE {unexpected(v, "tuple struct " \o name)}

\* deserialize_struct of the deserializer of a graph entity, with the visitor
\* derived for the struct: a field of a marker type is read from the
\* structural field of the marker, any other field from the property of its
\* name
element_field_swapped(f, v) ==
    IF f \in Markers
    THEN {element_newtype(IF f = "Id" /\ v.kind = "Relation" THEN "EndNodeId" ELSE f, v)}
    ELSE IF f \in DOMAIN v.val.properties THEN deserialize(ToStr, v.val.properties[f])
    ELSE {DeErr(missing_field(f))}
element_field(f, v) ==
    IF f \in Markers THEN {element_newtype(f, v)}
    ELSE IF f \in DOMAIN v.val.properties THEN deserialize(ToStr, v.val.properties[f])
    ELSE {DeErr(missing_field(f))}

element_struct(fields, v) ==
    LET names == {fields[i] : i \in 1..Len(fields)}
        bad == UNION {{o \in element_field(f, v) : o.state # "ok"} : f \in names}
    IN IF bad # {} THEN bad
       ELSE {DeOk([f \in names |-> (CHOOSE o \in element_field(f, v) : o.state = "ok").val])}

\* T::deserialize(BoltTypeDeserializer::new(value))
deserialize(req, v) ==
    CASE req.kind = "BoltType" -> to_BoltType(v)
      [] req.kind = "String" -> {deserialize_string(v)}
      [] req.kind = "Int" -> read_integer(v, req.arg, PrimitiveVisitor)
      [] req.kind = "Bool" -> {deserialize_bool(v)}
      [] req.kind = "Float" -> {read_float(v, req.arg)}
      [] req.kind = "Bytes" -> {deserialize_bytes(v)}
      [] req.kind = "Unit" -> {deserialize_unit(v)}
      [] req.kind = "Timestamp" -> deserialize_timestamp(req.arg, v)
      [] req.kind = "Vec" -> deserialize_seq(req.arg, v)
      [] req.kind = "Newtype" -> deserialize_newtype_struct(req.arg, v)
      [] req.kind = "Entity" -> element_struct(req.arg, v)
      [] req.kind = "Option" -> deserialize_option(req.arg, v)
      [] req.kind = "Tuple" -> deserialize_tuple(req.arg, v)
      [] req.kind = "Person" -> deserialize_struct(req.arg, v)

\* ---------------------------------------------------------------- BoltType::to
\* the requests decoded: Person is decoded from what is not handed to the
\* deserializer of a graph entity or a point, a tuple from what is not a
\* point, a struct of markers and properties from the graph entities that
\* have those markers, a newtype struct from every value but the entities and
\* points without that marker, a Vec of floats from every value but bytes and
\* a Vec of anything else from every value but a point
MarkersIn(fields) == {fields[i] : i \in 1..Len(fields)} \cap Markers
Applicable(v, req) ==
    /\ req.kind = "Person" => v.kind \notin Elements \cup Points
    /\ req.kind = "Tuple" => v.kind \notin Points
    /\ req.kind = "Entity" => MarkersOf(v.kind) # {} /\ MarkersIn(req.arg) \subseteq MarkersOf(v.kind)
    /\ (req.kind = "Newtype" /\ v.kind \in Elements \cup Points) => req.arg \in MarkersOf(v.kind)
    /\ req.kind = "Vec" => IF req.arg.kind = "Float" THEN v.kind # "Bytes"
                           ELSE v.kind \notin Points

InitSerde ==
    /\ Start
    /\ fetch_size = 1
    /\ nfail = MaxFail
    /\ qlimit = 1
    /\ db = NoDb
    /\ operation = "Write"
    /\ feature_v2 = FALSE
    /\ value \in Values
    /\ request \in Requests
    /\ Applicable(value, request)
    /\ decoded = Pending

\* value.to::<T>() for a target type of one of the kinds
to(kinds) ==
    /\ decoded.state = "pending"
    /\ request.kind \in kinds
    /\ decoded' \in deserialize(request, value)
    /\ UNCHANGED <<txnVars, connBad, sent, late, inflight, cur, result, nfail, streamVars,
                   serverVars, queryVars, stamped, leaseVars, batchVars, value, request>>

to_bolt_type == to({"BoltType"})
to_scalar == to({"String", "Int"})
to_option == to({"Option"})
to_tuple == to({"Tuple"})
to_struct == to({"Person"})
to_primitive == to({"Bool", "Float", "Bytes", "Unit"})
to_timestamp == to({"Timestamp"})
to_seq == to({"Vec"})
to_newtype == to({"Newtype"})
to_entity == to({"Entity"})

NextSerde ==
    \/ to_bolt_type
    \/ to_scalar
    \/ to_option
    \/ to_tuple
    \/ to_struct
    \/ to_primitive
    \/ to_timestamp
    \/ to_seq
    \/ to_newtype
    \/ to_entity

SpecSerde == InitSerde /\ [][NextSerde]_vars

\* ---------------------------------------------------------------- properties of BoltType::to
Done == decoded.state # "pending"

\* a value built only from the kinds that are said to round-trip
RECURSIVE RoundTrips(_)
RoundTrips(v) ==
    /\ v.kind \notin Temporal
    /\ v.kind = "List" => \A i \in 1..Len(v.val) : RoundTrips(v.val[i])
    /\ v.kind = "Map" => \A k \in DOMAIN v.val : RoundTrips(v.val[k])

\* the value an `as` cast of n to the type would keep: n itself exactly when
\* the bits above the type's width only extend its sign (or are zero)
KeptByCast(n, ty) ==
    CASE Bits(ty) = 8 ->
            IF Signed(ty) THEN n = i64(((n[3] + 128) % 256) - 128) ELSE n = i64(n[3] % 256)
      [] Bits(ty) = 16 ->
            IF Signed(ty) THEN n = i64(((n[3] + 32768) % Limb) - 32768) ELSE n = i64(n[3])
      [] Bits(ty) = 32 ->
            IF Signed(ty) THEN n = <<IF n[2] >= 32768 THEN -1 ELSE 0, n[2], n[3]>>
            ELSE n = <<0, n[2], n[3]>>
      [] Bits(ty) = 64 -> Signed(ty) \/ n[1] >= 0

\* C14: value.to::<BoltType>() returns a value equal to the original for
\* null, boolean, integer, float, string, bytes, list, map, node, relation,
\* unbounded relation, path, 2D point, 3D point and date-time, also when
\* such values are elements of a list or a map.
C14_RoundTrip ==
    (request.kind = "BoltType" /\ Done /\ RoundTrips(value)) =>
        (decoded.state = "ok" /\ decoded.val = value)

\* C15: value.to::<BoltType>() of a duration, date, time, local-time,
\* local-date-time or zone-id-date-time returns a decode error of the
\* unsupported-shape class; it neither returns a value nor panics.
C15_TemporalIsAnError ==
    (request.kind = "BoltType" /\ Done /\ value.kind \in Temporal) =>
        (decoded.state = "err" /\ decoded.err.kind = "invalid_type")

\* C16: value.to::<Option<T>>() is None for a null value, and for a value of
\* any other kind it is Some of what decoding the value into T gives.
C16_OptionOfNull ==
    (request.kind = "Option" /\ Done) =>
        IF value.kind = "Null"
        THEN decoded.state = "ok" /\ ~decoded.val.some
        ELSE \E o \in deserialize(request.arg, value) :
                /\ o.state = decoded.state
                /\ o.state = "ok" => (decoded.val.some /\ decoded.val.val = o.val)

\* C17: an integer v decoded into i8, i16, i32, i64, u8, u16, u32 or u64 is
\* v itself when v is in the range of the type, and otherwise the error
\* IntegerOutOfBounds carrying v and the name of the type; it is never the
\* wrapped or truncated value.
C17_IntegerNarrowing ==
    (request.kind = "Int" /\ value.kind = "Integer" /\ Done) =>
        IF KeptByCast(value.val, request.arg)
        THEN decoded.state = "ok" /\ decoded.val = value.val
        ELSE /\ decoded.state = "err"
             /\ decoded.err.kind = "IntegerOutOfBounds"
             /\ decoded.err.int = value.val
             /\ decoded.err.ty = request.arg

C17_Witness ==
    /\ value = Int1337
    /\ request = ToInt("i8")
    /\ decoded.state = "err"
    /\ decoded.err = IntegerOutOfBounds(i64(1337), "i8")

\* C18: a map whose keys strictly include the fields of Person fails to
\* decode into the Person with deny_unknown_fields; into the Person without
\* it the map decodes whenever its values for the fields fit them, the
\* fields take those values and the other entries are ignored.
StrictSuperset(m) == FieldNames \subseteq DOMAIN m /\ DOMAIN m # FieldNames
FieldsFit(m) ==
    /\ m["name"].kind = "String"
    /\ m["age"].kind = "Integer"
    /\ KeptByCast(m["age"].val, "u8")

C18_StrictFields ==
    (request.kind = "Person" /\ value.kind = "Map" /\ Done /\ StrictSuperset(value.val)) =>
        IF request.arg
        THEN decoded.state = "err"
        ELSE IF FieldsFit(value.val)
        THEN /\ decoded.state = "ok"
             /\ decoded.val = [name |-> value.val["name"].val, age |-> value.val["age"].val]
        ELSE decoded.state = "err" /\ decoded.err.kind # "unknown_field"

C18_Witness ==
    /\ request = ToPerson(FALSE)
    /\ value = V("Map", [k \in Keys |-> IF k = "name" THEN Alice
                                        ELSE IF k = "age" THEN Int42 ELSE Int1337])
    /\ decoded.state = "ok"
    /\ decoded.val = [name |-> "Alice", age |-> i64(42)]

\* C19: a tuple or tuple struct decoded from a map is always an error,
\* whatever the length of the tuple and the entries of the map, also when
\* the map has as many entries as the tuple has positions.
C19_TupleFromMapFails ==
    (request.kind = "Tuple" /\ value.kind = "Map" /\ Done) =>
        (decoded.state = "err" /\ decoded.err = invalid_type("Map", "a tuple"))

C19_Witness ==
    /\ request = ToTuple(<<ToStr, ToInt("u8")>>)
    /\ value = V("Map", [k \in {"name", "age"} |-> IF k = "name" THEN Alice ELSE Int42])
    /\ decoded.state = "err"

\* C20: a tuple or tuple struct of length n decodes from a list only when
\* the list has n elements, and then position i holds what element i decodes
\* to; a list of another length is an error, never cut or filled up.
C20_TupleFromList ==
    (request.kind = "Tuple" /\ value.kind = "List" /\ Done) =>
        LET n == Len(request.arg)
            elems == value.val
        IN /\ Len(elems) # n => decoded.state = "err"
           /\ decoded.state = "ok" =>
                /\ Len(elems) = n
                /\ Len(decoded.val) = n
                /\ \A i \in 1..n : \E o \in deserialize(request.arg[i], elems[i]) :
                        o.state = "ok" /\ o.val = decoded.val[i]
           /\ (Len(elems) = n /\ \A i \in 1..n : \A o \in deserialize(request.arg[i], elems[i]) :
                                                    o.state = "ok")
                => decoded.state = "ok"

C20_Witness ==
    /\ request = ToTuple(<<ToStr, ToInt("u8")>>)
    /\ value = V("List", <<Alice, Int42>>)
    /\ decoded.state = "ok"
    /\ decoded.val = <<"Alice", i64(42)>>

\* the decode failed because the value handed over is of the wrong kind
KindMismatch == decoded.state = "err" /\ decoded.err.kind = "invalid_type"
                /\ decoded.err.unexp = Unexp(value)

\* C21: a tuple or tuple-struct request against a node, relation, unbounded
\* relation, path, 2D point or 3D point is accepted (positional access to
\* the fixed-arity payload); it does not fail with a kind mismatch.
C21_TupleFromEntity ==
    (request.kind = "Tuple" /\ Done /\ value.kind \in Elements \cup Points) => ~KindMismatch

\* the kinds a primitive request is answered from
Primitive == {"Bool", "Float", "Bytes", "Unit", "Int", "String"}
Matching(req) ==
    CASE req.kind = "Bool" -> {"Boolean"}
      [] req.kind = "Float" -> {"Float"}
      [] req.kind = "Bytes" -> {"Bytes"}
      [] req.kind = "Unit" -> {"Null"}
      [] req.kind = "Int" -> {"Integer", "DateTime"}
      [] req.kind = "String" -> {"String", "DateTime"}

\* C23: a bool, float, bytes, unit, integer or string request succeeds only
\* against its own kind of value (boolean, float, bytes, null, integer or
\* date-time, string or date-time); against any other kind it fails with a
\* kind mismatch, and a value of the matching plain kind is handed over as it
\* is (nothing is coerced).
C23_PrimitiveKinds ==
    (request.kind \in Primitive /\ Done) =>
        /\ decoded.state = "ok" => value.kind \in Matching(request)
        /\ value.kind \notin Matching(request) => KindMismatch
        /\ (value.kind \in Matching(request) \ {"Integer", "DateTime"}) =>
                /\ decoded.state = "ok"
                /\ decoded.val = CASE request.kind = "Float" -> from_float(value.val, request.arg)
                                   [] request.kind = "Unit" -> "()"
                                   [] OTHER -> value.val

C23_Witness ==
    /\ request = ToFloat("f64")
    /\ value = Int42
    /\ Done
    /\ KindMismatch
    /\ decoded.err.unexp = "Signed"

\* C22: decoding a node, relation or unbounded relation into a struct that
\* declares marker fields and ordinary fields, in any order, fills Id from
\* the identifier, StartNodeId and EndNodeId from the start and end
\* identifiers, Labels from the labels in received order, Type from the
\* relationship type, Keys from the set of property keys, and every ordinary
\* field from the property of its name.
C22_MarkersAndProperties ==
    (request.kind = "Entity" /\ Done) =>
        LET names == {request.arg[i] : i \in 1..Len(request.arg)} IN
        /\ decoded.state = "ok"
        /\ DOMAIN decoded.val = names
        /\ "Id" \in names => decoded.val["Id"] = value.val.id
        /\ "StartNodeId" \in names => decoded.val["StartNodeId"] = value.val.start_node_id
        /\ "EndNodeId" \in names => decoded.val["EndNodeId"] = value.val.end_node_id
        /\ "Labels" \in names => decoded.val["Labels"] = value.val.labels
        /\ "Type" \in names => decoded.val["Type"] = value.val.typ
        /\ "Keys" \in names => decoded.val["Keys"] = DOMAIN value.val.properties
        /\ "name" \in names => decoded.val["name"] = value.val.properties["name"].val

C22_Witness ==
    /\ value = Rel1
    /\ request = ToEntity(<<"name", "EndNodeId", "Id">>)
    /\ decoded.state = "ok"
    /\ decoded.val["Id"] = 7
    /\ decoded.val["EndNodeId"] = 2
    /\ decoded.val["name"] = "Alice"

\* the timestamp of an instant in a unit (in nanoseconds: when it is an i64)
InUnit(dt, unit) ==
    CASE unit = "s" -> dt.secs
      [] unit = "ms" -> dt.millis
      [] unit = "us" -> dt.micros
      [] unit = "ns" -> dt.nanos

\* C24: an integer request against a date-time gives the timestamp of the
\* instant in seconds, milliseconds or microseconds for the visitor of that
\* unit and in nanoseconds for every other visitor; when the timestamp does
\* not fit the integer type asked for, the request fails with
\* IntegerOutOfBounds carrying the timestamp and the type name.
C24_TimestampByVisitor ==
    (request.kind \in {"Int", "Timestamp"} /\ Done /\ value.kind = "DateTime" /\ value.val.chrono) =>
        LET unit == IF request.kind = "Timestamp" THEN UnitOf(request.arg) ELSE "ns"
            ty == IF request.kind = "Timestamp" THEN "i64" ELSE request.arg
            exact == unit = "ns" => value.val.span
            ts == InUnit(value.val, unit)
        IN IF exact /\ try_into(ts, ty)
           THEN /\ decoded.state = "ok"
                /\ IF request.kind = "Timestamp"
                   THEN decoded.val.unit = unit /\ decoded.val.ts = ts
                   ELSE decoded.val = ts
           ELSE /\ decoded.state = "err"
                /\ decoded.err.kind = "IntegerOutOfBounds"
                /\ decoded.err.ty = ty
                /\ exact => decoded.err.int = ts

\* C25: a sequence request against a list gives the elements of the list one
\* by one in list order, against bytes it gives every byte as one element in
\* order, against a 2D or 3D point it gives the coordinates by position, and
\* against any other kind (map, string, graph entities, ..) it fails with a
\* kind mismatch.
C25_Sequences ==
    (request.kind = "Vec" /\ Done) =>
        CASE value.kind = "List" ->
                LET outs == [i \in 1..Len(value.val) |-> deserialize(request.arg, value.val[i])] IN
                /\ (\A i \in DOMAIN outs : \A o \in outs[i] : o.state = "ok") =>
                        /\ decoded.state = "ok"
                        /\ Len(decoded.val) = Len(value.val)
                        /\ \A i \in DOMAIN outs : DeOk(decoded.val[i]) \in outs[i]
                /\ (\E i \in DOMAIN outs : \A o \in outs[i] : o.state # "ok") =>
                        decoded.state # "ok"
          [] value.kind = "Bytes" ->
                IF request.arg.kind \in {"Int", "BoltType"}
                THEN /\ decoded.state = "ok"
                     /\ Len(decoded.val) = Len(value.val)
                     /\ \A i \in 1..Len(value.val) :
                            decoded.val[i] = IF request.arg.kind = "Int" THEN i64(value.val[i])
                                             ELSE V("Integer", i64(value.val[i]))
                ELSE decoded.state = "err"
          [] value.kind = "Point2D" ->
                decoded.state = "ok" /\ decoded.val = <<value.val.x, value.val.y>>
          [] value.kind = "Point3D" ->
                decoded.state = "ok" /\ decoded.val = <<value.val.x, value.val.y, value.val.z>>
          [] OTHER -> KindMismatch

C25_Witness ==
    /\ request = ToVec(ToBoltType)
    /\ value = V("List", <<Alice, Int42>>)
    /\ decoded.state = "ok"
    /\ decoded.val = <<Alice, Int42>>

\* C29: a newtype-struct request is forwarded only for a node, relation,
\* unbounded relation, path, 2D point or 3D point; against every other kind
\* it fails with a kind mismatch and the value is never decoded into the
\* type inside the wrapper.
C29_NewtypeOnlyForwarded ==
    (request.kind = "Newtype" /\ Done) =>
        IF value.kind \in Elements \cup Points
        THEN decoded = element_newtype(request.arg, value)
        ELSE KindMismatch

C29_Witness ==
    /\ request = ToNewtype("Id")
    /\ value = Int42
    /\ DeOk(i64(42)) \in deserialize(NewtypeInner("Id"), value)
    /\ Done
    /\ KindMismatch

\* C26: the "found" part of a kind-mismatch error names the kind of the
\* value that was handed over: no value of another kind is reported the
\* same way.
C26_ErrorNamesKind ==
    (request.kind \in Primitive /\ Done /\ KindMismatch) =>
        \A v \in Values : Unexp(v) = decoded.err.unexp => v.kind = value.kind
====
